---- MODULE Spec2Model ----
(***************************************************************************)
(* Model of python/helpers/pydev/_pydevd_frame_eval/                       *)
(* pydevd_frame_eval_cython_wrapper.py: the module-level resolution of     *)
(* frame_eval_func and stop_frame_eval, one action per statement.          *)
(*                                                                         *)
(* A Python name is modelled as a sequence: <<>> when the name is unbound, *)
(* <<v>> when it is bound to v.  A function object is the record           *)
(* [module |-> m, symbol |-> s]: the function s defined by the module m.   *)
(***************************************************************************)
EXTENDS Integers, Sequences, FiniteSets, TLC

\* ---------------------------------------------------------------- bounds
\* Largest minor version of the interpreters the hosts are drawn from.
MaxMinor == 10
\* Number of reads by consumers of the shim that are followed after it loaded.
MaxReads == 2

\* ------------------------------------------------------ program constants
\* The exponent of the literal 2**32 (line 8).
WidthExponent == 32
\* Bits per limb of the representation of Python's unbounded ints.
LimbBits == 16

\* -------------------------------------------------------- Python ints
\* An unbounded non-negative int is a sequence of limbs, most significant
\* first, without leading zero limbs (zero is <<>>).
RECURSIVE Zeros(_)
Zeros(n) == IF n = 0 THEN <<>> ELSE <<0>> \o Zeros(n - 1)

\* 2**n.
BigPow2(n) == <<2 ^ (n % LimbBits)>> \o Zeros(n \div LimbBits)

RECURSIVE LexGT(_, _)
LexGT(a, b) ==
    IF a = <<>> THEN FALSE
    ELSE IF Head(a) # Head(b) THEN Head(a) > Head(b)
    ELSE LexGT(Tail(a), Tail(b))

\* a > b on ints.
BigGT(a, b) ==
    IF Len(a) # Len(b) THEN Len(a) > Len(b) ELSE LexGT(a, b)

\* a >= b on ints: the comparison the code does not make.
BigGE(a, b) == a = b \/ BigGT(a, b)

\* sys.maxsize > 2**32 (line 8).
Is64Bits_ge(maxsize) == BigGE(maxsize, BigPow2(WidthExponent))
Is64Bits(maxsize) == BigGT(maxsize, BigPow2(WidthExponent))

\* ------------------------------------------------------ Python strings
Digits == <<"0", "1", "2", "3", "4", "5", "6", "7", "8", "9">>

\* str(n) of a non-negative int: its decimal digits.
RECURSIVE PyStrInt(_)
PyStrInt(n) ==
    IF n < 10 THEN Digits[n + 1]
    ELSE PyStrInt(n \div 10) \o Digits[(n % 10) + 1]

StrArg(s) == [kind |-> "str", s |-> s, i |-> 0]
IntArg(i) == [kind |-> "int", s |-> "", i |-> i]

\* str(x), as the %s conversion applies it.
PyStr(arg) == IF arg.kind = "int" THEN PyStrInt(arg.i) ELSE arg.s

\* template % args: a template is the sequence of its literal pieces and
\* its "%s" conversions, each conversion consuming the next argument.
RECURSIVE PyFormat(_, _)
PyFormat(template, args) ==
    IF template = <<>> THEN ""
    ELSE IF Head(template) = "%s"
         THEN PyStr(Head(args)) \o PyFormat(Tail(template), Tail(args))
         ELSE Head(template) \o PyFormat(Tail(template), args)

\* 'pydevd_frame_evaluator_%s_%s%s_%s' (line 24).
ModNameTemplate_nosep ==
    <<"pydevd_frame_evaluator_", "%s", "_", "%s", "%s", "%s">>
ModNameTemplate ==
    <<"pydevd_frame_evaluator_", "%s", "_", "%s", "%s", "_", "%s">>

\* '_pydevd_frame_eval.%s' (line 25).
CheckNameTemplate == <<"_pydevd_frame_eval.", "%s">>

\* The right-hand side of line 24.
FormatModName(platform, version_info, p) ==
    PyFormat(ModNameTemplate,
             <<StrArg(platform), IntArg(version_info[1]),
               IntArg(version_info[2]), StrArg(p)>>)

\* Line 25 without the namespace: the key is the bare provider name.
FormatCheckName_bare(m) == PyFormat(<<"%s">>, <<StrArg(m)>>)

\* The right-hand side of line 25.
FormatCheckName(m) == PyFormat(CheckNameTemplate, <<StrArg(m)>>)

\* ------------------------------------------------------------ the host
Package == "_pydevd_frame_eval"
DefaultName == "pydevd_frame_evaluator"
Symbols == {"frame_eval_func", "stop_frame_eval"}

Platforms == {"linux", "win32"}
Versions == {<<2, 7>>, <<3, 9>>, <<3, MaxMinor>>}

\* sys.maxsize of the hosts: 2**31-1, 2**32-1, 2**32, 2**32+1, 2**63-1.
MaxSizes ==
    { <<32767, 65535>>, <<65535, 65535>>, <<1, 0, 0>>, <<1, 0, 1>>,
      <<32767, 65535, 65535, 65535>> }

\* Names of the pre-compiled providers a distribution may ship in the package.
Candidates ==
    { "pydevd_frame_evaluator_linux_39_64",
      "pydevd_frame_evaluator_linux_3964",
      "pydevd_frame_evaluator_win32_27_32" }

Unbound == <<>>
Bound(v) == <<v>>
Func(m, s) == [module |-> m, symbol |-> s]

VARIABLES
    sys_platform,      \* sys.platform
    sys_version_info,  \* sys.version_info[0:2]
    sys_maxsize,       \* <<>> when sys has no maxsize, else <<limbs>>
    defaultModule,     \* [installed, attrs] of _pydevd_frame_eval.pydevd_frame_evaluator
    installed,         \* the qualified providers importable from the package
    providerAttrs,     \* the symbols a qualified provider defines
    pkgExposes,        \* the package object has its imported submodules as attributes
    pc,                \* the statement to execute next
    exc,               \* the exception being handled or escaped, "" for none
    frame_eval_func,   \* module-level name
    stop_frame_eval,   \* module-level name
    is_64bits, plat, mod_name, check_name, mod,
    importKey,         \* history: the argument of __import__ (line 26)
    attrKey,           \* history: the name given to getattr (line 27)
    log,               \* history: what resolution did, in order
    reads              \* history: reads of the two names after loading

env == <<sys_platform, sys_version_info, sys_maxsize, defaultModule,
         installed, providerAttrs, pkgExposes>>
names == <<frame_eval_func, stop_frame_eval>>
locals == <<is_64bits, plat, mod_name, check_name, mod>>
keys == <<importKey, attrKey>>
vars == <<env, pc, exc, names, locals, keys, log, reads>>

Init ==
    /\ sys_platform \in Platforms
    /\ sys_version_info \in Versions
    /\ sys_maxsize \in {Unbound} \cup {Bound(m) : m \in MaxSizes}
    /\ defaultModule \in
         {[installed |-> FALSE, attrs |-> {}]} \cup
         {[installed |-> TRUE, attrs |-> a] : a \in SUBSET Symbols}
    /\ installed \in SUBSET Candidates
    /\ providerAttrs \in SUBSET Symbols
    /\ pkgExposes \in BOOLEAN
    /\ pc = "primary_import"
    /\ exc = ""
    /\ frame_eval_func = Unbound
    /\ stop_frame_eval = Unbound
    /\ is_64bits = Unbound
    /\ plat = Unbound
    /\ mod_name = Unbound
    /\ check_name = Unbound
    /\ mod = Unbound
    /\ importKey = Unbound
    /\ attrKey = Unbound
    /\ log = <<>>
    /\ reads = 0

\* An ImportError raised inside the outer try's body (line 1): control goes
\* to the handler of line 3.
RaiseToFallback(event) ==
    /\ pc' = "fallback_imports"
    /\ log' = log \o <<event, "enter_fallback">>

\* Line 2, IMPORT_NAME: import _pydevd_frame_eval.pydevd_frame_evaluator.
PrimaryImport ==
    /\ pc = "primary_import"
    /\ IF defaultModule.installed
       THEN /\ pc' = "primary_from_frame_eval_func"
            /\ log' = log \o <<"import_default">>
       ELSE RaiseToFallback("import_default")
    /\ UNCHANGED <<env, exc, names, locals, keys, reads>>

\* Line 2, IMPORT_FROM frame_eval_func; STORE_NAME frame_eval_func.
PrimaryFromFrameEvalFunc ==
    /\ pc = "primary_from_frame_eval_func"
    /\ IF "frame_eval_func" \in defaultModule.attrs
       THEN /\ frame_eval_func' = Bound(Func(DefaultName, "frame_eval_func"))
            /\ pc' = "primary_from_stop_frame_eval"
            /\ log' = log \o <<"bind_frame_eval_func">>
       ELSE /\ RaiseToFallback("import_from_failed")
            /\ UNCHANGED frame_eval_func
    /\ UNCHANGED <<env, exc, stop_frame_eval, locals, keys, reads>>

\* Line 2 with the fallback written after the try statement instead of in
\* its handler: the fallback runs although the primary import succeeded.
PrimaryFromStopFrameEval_fallthrough ==
    /\ pc = "primary_from_stop_frame_eval"
    /\ IF "stop_frame_eval" \in defaultModule.attrs
       THEN /\ stop_frame_eval' = Bound(Func(DefaultName, "stop_frame_eval"))
            /\ pc' = "fallback_imports"
            /\ log' = log \o <<"bind_stop_frame_eval", "enter_fallback">>
       ELSE /\ RaiseToFallback("import_from_failed")
            /\ UNCHANGED stop_frame_eval
    /\ UNCHANGED <<env, exc, frame_eval_func, locals, keys, reads>>

\* Line 2, IMPORT_FROM stop_frame_eval; STORE_NAME stop_frame_eval.
PrimaryFromStopFrameEval ==
    /\ pc = "primary_from_stop_frame_eval"
    /\ IF "stop_frame_eval" \in defaultModule.attrs
       THEN /\ stop_frame_eval' = Bound(Func(DefaultName, "stop_frame_eval"))
            /\ pc' = "done"
            /\ log' = log \o <<"bind_stop_frame_eval">>
       ELSE /\ RaiseToFallback("import_from_failed")
            /\ UNCHANGED stop_frame_eval
    /\ UNCHANGED <<env, exc, frame_eval_func, locals, keys, reads>>

\* Lines 5-6: import struct; import sys.
FallbackImports ==
    /\ pc = "fallback_imports"
    /\ pc' = "bitness_query"
    /\ log' = log \o <<"import_struct_sys">>
    /\ UNCHANGED <<env, exc, names, locals, keys, reads>>

\* Lines 7-11: is_64bits = sys.maxsize > 2**32; any exception of the query
\* is replaced by an ImportError, which the handler of line 29 catches.
BitnessQuery ==
    /\ pc = "bitness_query"
    /\ IF sys_maxsize = Unbound
       THEN /\ exc' = "ImportError"
            /\ pc' = "except_import_error"
            /\ log' = log \o <<"bitness_query", "bitness_query_failed">>
            /\ UNCHANGED is_64bits
       ELSE /\ is_64bits' = Bound(Is64Bits(sys_maxsize[1]))
            /\ pc' = "plat_default"
            /\ log' = log \o <<"bitness_query">>
            /\ UNCHANGED exc
    /\ UNCHANGED <<env, names, plat, mod_name, check_name, mod, keys, reads>>

\* Line 12: plat = '32'.
PlatDefault ==
    /\ pc = "plat_default"
    /\ plat' = Bound("32")
    /\ pc' = "plat_if_64"
    /\ log' = log \o <<"plat_32">>
    /\ UNCHANGED <<env, exc, names, is_64bits, mod_name, check_name, mod,
                   keys, reads>>

\* Lines 13-14: if is_64bits: plat = '64'.
PlatIf64 ==
    /\ pc = "plat_if_64"
    /\ IF is_64bits[1]
       THEN /\ plat' = Bound("64")
            /\ log' = log \o <<"plat_64">>
       ELSE UNCHANGED <<plat, log>>
    /\ pc' = "assign_mod_name"
    /\ UNCHANGED <<env, exc, names, is_64bits, mod_name, check_name, mod,
                   keys, reads>>

\* Line 24: mod_name = 'pydevd_frame_evaluator_%s_%s%s_%s' % (...).
AssignModName ==
    /\ pc = "assign_mod_name"
    /\ mod_name' = Bound(FormatModName(sys_platform, sys_version_info, plat[1]))
    /\ pc' = "assign_check_name"
    /\ log' = log \o <<"format_mod_name">>
    /\ UNCHANGED <<env, exc, names, is_64bits, plat, check_name, mod, keys,
                   reads>>

\* Line 25: check_name = '_pydevd_frame_eval.%s' % (mod_name,).
AssignCheckName ==
    /\ pc = "assign_check_name"
    /\ check_name' = Bound(FormatCheckName(mod_name[1]))
    /\ pc' = "import_qualified"
    /\ log' = log \o <<"format_check_name">>
    /\ UNCHANGED <<env, exc, names, is_64bits, plat, mod_name, mod, keys,
                   reads>>

\* The dotted names importable from the package.
Importable == {Package \o "." \o n : n \in installed}

\* Line 26: mod = __import__(check_name).  __import__ of a dotted name
\* returns the top-level package; a name that is not importable raises
\* ImportError, which the handler of line 29 catches.
ImportQualified ==
    /\ pc = "import_qualified"
    /\ importKey' = check_name
    /\ IF check_name[1] \in Importable
       THEN /\ mod' = Bound(Package)
            /\ pc' = "getattr"
            /\ log' = log \o <<"import_qualified">>
            /\ UNCHANGED exc
       ELSE /\ exc' = "ImportError"
            /\ pc' = "except_import_error"
            /\ log' = log \o <<"import_qualified", "import_qualified_failed">>
            /\ UNCHANGED mod
    /\ UNCHANGED <<env, names, is_64bits, plat, mod_name, check_name, attrKey,
                   reads>>

\* The attributes of the object named m: the package has the submodule
\* imported at line 26, when the package object has its submodules as
\* attributes; a qualified provider has the symbols it defines.
ObjAttrs(m) ==
    IF m = Package
    THEN IF pkgExposes
         THEN {n \in installed : Bound(Package \o "." \o n) = importKey}
         ELSE {}
    ELSE IF m \in installed THEN providerAttrs ELSE {}

\* Line 27 left out: mod stays the package __import__ returned.
GetAttr_skip ==
    /\ pc = "getattr"
    /\ pc' = "bind_fallback"
    /\ UNCHANGED <<env, exc, names, locals, keys, log, reads>>

\* Line 27: mod = getattr(mod, mod_name).  A missing attribute raises
\* AttributeError, which no handler of the file catches.
GetAttr ==
    /\ pc = "getattr"
    /\ attrKey' = mod_name
    /\ IF mod_name[1] \in ObjAttrs(mod[1])
       THEN /\ mod' = Bound(mod_name[1])
            /\ pc' = "bind_fallback"
            /\ log' = log \o <<"getattr">>
            /\ UNCHANGED exc
       ELSE /\ exc' = "AttributeError"
            /\ pc' = "raised"
            /\ log' = log \o <<"getattr", "getattr_failed">>
            /\ UNCHANGED mod
    /\ UNCHANGED <<env, names, is_64bits, plat, mod_name, check_name,
                   importKey, reads>>

\* Line 28: frame_eval_func, stop_frame_eval = mod.frame_eval_func,
\* mod.stop_frame_eval.  Both attributes are read before either name is
\* stored; a missing one raises AttributeError, which no handler catches.
BindFallback ==
    /\ pc = "bind_fallback"
    /\ IF Symbols \subseteq ObjAttrs(mod[1])
       THEN /\ frame_eval_func' = Bound(Func(mod[1], "frame_eval_func"))
            /\ stop_frame_eval' = Bound(Func(mod[1], "stop_frame_eval"))
            /\ pc' = "done"
            /\ log' = log \o <<"bind_frame_eval_func", "bind_stop_frame_eval">>
            /\ UNCHANGED exc
       ELSE /\ exc' = "AttributeError"
            /\ pc' = "raised"
            /\ log' = log \o <<"symbol_missing">>
            /\ UNCHANGED names
    /\ UNCHANGED <<env, locals, keys, reads>>

\* Lines 29-30 as "except ImportError: pass": the failure is swallowed.
Reraise_swallow ==
    /\ pc = "except_import_error"
    /\ pc' = "done"
    /\ exc' = ""
    /\ log' = log \o <<"swallow">>
    /\ UNCHANGED <<env, names, locals, keys, reads>>

\* Lines 29-30: except ImportError: raise.
Reraise ==
    /\ pc = "except_import_error"
    /\ pc' = "raised"
    /\ log' = log \o <<"reraise">>
    /\ UNCHANGED <<env, exc, names, locals, keys, reads>>

\* After the shim loaded, the rest of the debugger reads the two names.
ReadNames ==
    /\ pc = "done"
    /\ reads < MaxReads
    /\ reads' = reads + 1
    /\ UNCHANGED <<env, pc, exc, names, locals, keys, log>>

Resolve ==
    \/ PrimaryImport
    \/ PrimaryFromFrameEvalFunc
    \/ PrimaryFromStopFrameEval
    \/ FallbackImports
    \/ BitnessQuery
    \/ PlatDefault
    \/ PlatIf64
    \/ AssignModName
    \/ AssignCheckName
    \/ ImportQualified
    \/ GetAttr
    \/ BindFallback
    \/ Reraise

Next == Resolve \/ ReadNames

Spec == Init /\ [][Next]_vars

\* Loading a module runs to completion: no statement waits.
FairSpec == Spec /\ WF_vars(Resolve)
\* ---------------------------------------------------------------- claims
Occurs(e) == \E i \in 1..Len(log) : log[i] = e
Count(e) == Cardinality({i \in 1..Len(log) : log[i] = e})
Terminated == pc \in {"done", "raised"}
BothUnbound == frame_eval_func = Unbound /\ stop_frame_eval = Unbound
BothBoundFrom(m) ==
    /\ frame_eval_func = Bound(Func(m, "frame_eval_func"))
    /\ stop_frame_eval = Bound(Func(m, "stop_frame_eval"))

\* The default module exists and defines both symbols: line 2 succeeds.
DefaultComplete ==
    defaultModule.installed /\ Symbols \subseteq defaultModule.attrs

\* A limb sequence denotes a number above 2^32 = 1 * 65536^2: it has more
\* than three limbs, or three limbs that are not <<1, 0, 0>> or below.
ExceedsTwoPow32(l) ==
    \/ Len(l) > 3
    \/ Len(l) = 3 /\ (l[1] > 1 \/ l[2] > 0 \/ l[3] > 0)

\* The documented provider name of the host, when its bitness is known:
\* <provider-prefix>_<platform>_<major><minor>_<width>.
DocWidth == IF ExceedsTwoPow32(sys_maxsize[1]) THEN "64" ELSE "32"
DocModName ==
    "pydevd_frame_evaluator" \o "_" \o sys_platform \o "_"
        \o ToString(sys_version_info[1]) \o ToString(sys_version_info[2])
        \o "_" \o DocWidth

\* The provider named n is present: importable from the package, reachable
\* as the package's attribute n, and defining both symbols.
ProviderPresent(n) ==
    n \in installed /\ pkgExposes /\ Symbols \subseteq providerAttrs

FallbackEvents ==
    {"enter_fallback", "import_struct_sys", "bitness_query", "plat_32",
     "format_mod_name", "format_check_name", "import_qualified", "getattr"}

\* C1: whenever the default provider exists with both symbols, resolution
\* finishes on the primary path: it reaches "done", the fallback is never
\* entered (no bitness query, no qualified name, no second import, no local
\* of the fallback is assigned), nothing is raised, and once done both names
\* are bound to the default provider's functions.
C1_PrimaryPathOnly ==
    /\ [](DefaultComplete =>
            /\ \A e \in FallbackEvents : ~Occurs(e)
            /\ locals = <<Unbound, Unbound, Unbound, Unbound, Unbound>>
            /\ keys = <<Unbound, Unbound>>
            /\ pc # "raised" /\ exc = ""
            /\ (pc = "done" => BothBoundFrom(DefaultName)))
    /\ (DefaultComplete ~> pc = "done")

C1_Witness ==
    DefaultComplete /\ pc = "done" /\ BothBoundFrom(DefaultName) /\ reads > 0

\* C2: if the import of the default provider raises ImportError (the module
\* is missing or lacks a symbol) and the provider with the host's qualified
\* name is present, resolution never raises, and when it has terminated both
\* names are bound to the two functions of the qualified provider.
C2_FallbackSucceeds ==
    (~DefaultComplete /\ sys_maxsize # Unbound /\ ProviderPresent(DocModName))
        => /\ pc # "raised" /\ pc # "except_import_error" /\ exc = ""
           /\ (pc = "done" => BothBoundFrom(DocModName))

C2_Witness ==
    /\ ~DefaultComplete /\ sys_maxsize # Unbound /\ ProviderPresent(DocModName)
    /\ pc = "done" /\ BothBoundFrom(DocModName)

C4_KeyFormat ==
    /\ mod_name # Unbound =>
         /\ plat[1] \in {"32", "64"}
         /\ mod_name[1] =
              "pydevd_frame_evaluator" \o "_" \o sys_platform \o "_"
                \o ToString(sys_version_info[1])
                \o ToString(sys_version_info[2]) \o "_" \o plat[1]
    /\ check_name # Unbound =>
         check_name[1] = "_pydevd_frame_eval" \o "." \o mod_name[1]
    /\ importKey # Unbound => importKey = check_name
    /\ attrKey # Unbound =>
         importKey[1] = "_pydevd_frame_eval" \o "." \o attrKey[1]

C4_Witness ==
    /\ attrKey # Unbound
    /\ sys_platform = "win32" /\ sys_version_info = <<2, 7>> /\ plat = Bound("32")

\* The host of the scenario: linux, version (3, 9), 64-bit.
Linux39Wide ==
    /\ sys_platform = "linux" /\ sys_version_info = <<3, 9>>
    /\ sys_maxsize # Unbound /\ ExceedsTwoPow32(sys_maxsize[1])

\* C5 as stated: on linux, version (3, 9), 64-bit, with a failing default
\* import, the key of the fallback import is
\* "_pydevd_frame_eval.pydevd_frame_evaluator_linux_3964", and the fallback
\* succeeds with both names bound when a provider of that name is present.
C5_Original ==
    (Linux39Wide /\ ~DefaultComplete) =>
        /\ importKey # Unbound =>
             importKey[1] = "_pydevd_frame_eval.pydevd_frame_evaluator_linux_3964"
        /\ (Terminated /\ ProviderPresent("pydevd_frame_evaluator_linux_3964"))
             => pc = "done" /\ BothBoundFrom("pydevd_frame_evaluator_linux_3964")

\* C5 amended: on that host the key of the fallback import is
\* "_pydevd_frame_eval.pydevd_frame_evaluator_linux_39_64" (an underscore
\* separates the version from the width), and the fallback succeeds with
\* both names bound when a provider of that name is present.
C5_Amended ==
    (Linux39Wide /\ ~DefaultComplete) =>
        /\ importKey # Unbound =>
             importKey[1] = "_pydevd_frame_eval.pydevd_frame_evaluator_linux_39_64"
        /\ (Terminated /\ ProviderPresent("pydevd_frame_evaluator_linux_39_64"))
             => pc = "done" /\ exc = ""
                /\ BothBoundFrom("pydevd_frame_evaluator_linux_39_64")

C5_Witness ==
    /\ Linux39Wide /\ ~DefaultComplete
    /\ importKey = Bound("_pydevd_frame_eval.pydevd_frame_evaluator_linux_39_64")
    /\ pc = "done" /\ BothBoundFrom("pydevd_frame_evaluator_linux_39_64")

\* C6: if the bitness query raises on the fallback path, resolution fails
\* at once with an ImportError surfaced to the importer: no qualified name
\* is computed, no second import is attempted, the width is not defaulted
\* to "32", and neither name is bound.
C6_BitnessFailure ==
    Occurs("bitness_query_failed") =>
        /\ pc \in {"except_import_error", "raised"} /\ exc = "ImportError"
        /\ mod_name = Unbound /\ check_name = Unbound /\ plat = Unbound
        /\ ~Occurs("import_qualified")
        /\ BothUnbound

\* C7: every failed resolution surfaces to the importer as an ImportError;
\* no other kind of error escapes the shim.
C7_OneErrorKind == pc = "raised" => exc = "ImportError"

\* C8: when resolution has terminated, both names are bound or neither is.
C8_NoPartialBinding ==
    Terminated => (frame_eval_func = Unbound <=> stop_frame_eval = Unbound)

\* C9: each of the two names is assigned at most once during resolution,
\* never by the primary path and then again by the fallback path, and no
\* step taken after resolution completed changes either binding.
C9_AssignedOnce ==
    /\ [](Count("bind_frame_eval_func") <= 1)
    /\ [](Count("bind_stop_frame_eval") <= 1)
    /\ [][Terminated => UNCHANGED names]_vars

\* C10: on the fallback path the width marker is "64" exactly when
\* sys.maxsize is strictly greater than 2^32 and "32" otherwise (2^32 itself
\* and 2^31-1 give "32"); no other marker is ever produced.
C10_WidthMarker ==
    /\ plat \in {Unbound, Bound("32"), Bound("64")}
    /\ (plat # Unbound /\ pc # "plat_if_64") =>
         /\ plat = Bound("64") <=> ExceedsTwoPow32(sys_maxsize[1])
         /\ sys_maxsize \in {Bound(<<1, 0, 0>>), Bound(<<32767, 65535>>)}
              => plat = Bound("32")

C10_Witness ==
    /\ pc = "assign_mod_name"
    /\ sys_maxsize = Bound(<<1, 0, 0>>) /\ plat = Bound("32")
====
